---- MODULE Spec2Model ----
(***************************************************************************)
(* Model of generate_master_reference.py: the three-stage merge of the     *)
(* SIRCA names file (primary), the SecurityReference file (secondary) and  *)
(* the MasterCompany file (tertiary) into master_company_reference.csv.    *)
(*                                                                         *)
(* A string is a sequence of one-character strings, so that strip() and    *)
(* upper() are computed character by character.  A row (a Python dict) is  *)
(* a function from column names to strings.                                *)
(***************************************************************************)
EXTENDS Naturals, Sequences, FiniteSets, TLC

(***************************************************************************)
(* Bound of the model: the largest number of rows of the three input files *)
(* taken together.                                                         *)
(***************************************************************************)
MaxRows == 4

(***************************************************************************)
(* Strings.                                                                *)
(***************************************************************************)
\* The value csv.DictReader stores for a field missing from a short row.
None == <<"None">>

\* "" in the source.
Empty == <<>>

\* Characters that str.strip() removes.
Whitespace == {" ", "\t"}

\* Python truthiness of a field value: None and "" are false.
Truthy(val) == val # None /\ val # Empty

RECURSIVE LStrip(_)
LStrip(s) ==
    IF s # <<>> /\ Head(s) \in Whitespace THEN LStrip(Tail(s)) ELSE s

RECURSIVE RStrip(_)
RStrip(s) ==
    IF s # <<>> /\ s[Len(s)] \in Whitespace
    THEN RStrip(SubSeq(s, 1, Len(s) - 1))
    ELSE s

\* str.strip()
strip(s) == RStrip(LStrip(s))

\* clean(val): None becomes "", anything else is stripped.
clean(val) == IF val = None THEN Empty ELSE strip(val)

\* The lower-case letters of the model's alphabet and their upper-case forms.
UpperOf == ("x" :> "X") @@ ("y" :> "Y") @@ ("z" :> "Z") @@ ("q" :> "Q")

\* str.upper(), character by character.
upper(s) == [k \in 1..Len(s) |-> IF s[k] \in DOMAIN UpperOf THEN UpperOf[s[k]] ELSE s[k]]

(***************************************************************************)
(* Dictionaries and lists.                                                 *)
(***************************************************************************)
\* dict.get(key, default)
Get(d, key, default) == IF key \in DOMAIN d THEN d[key] ELSE default

\* d[key] = val
Put(d, key, val) == (key :> val) @@ d

\* The set of the elements of a list.
Range(s) == {s[k] : k \in 1..Len(s)}

\* [c for c in cols if c in present]
FilterIn(cols, present) == SelectSeq(cols, LAMBDA c : c \in present)

(***************************************************************************)
(* The fixed column lists of the program.                                  *)
(***************************************************************************)
SR_COLS_KEEP ==
    << "CompanyId", "ShareClassId",
       "ISIN", "CUSIP", "Valoren",
       "ExchangeId", "CurrencyId", "MIC",
       "IPODate", "IPOOfferPrice", "IPOOfferPriceRange",
       "IsDepositaryReceipt", "DepositaryReceiptRatio",
       "SecurityType",
       "ShareClassDescription", "ShareClassStatus",
       "IsPrimaryShare", "IsDividendReinvest", "IsDirectInvest",
       "InvestmentId",
       "CommonShareSubType", "ExchangeSubMarketGlobalId",
       "ConversionRatio", "ActiveOrDelisted" >>

MC_COLS_KEEP ==
    << "ISIN",
       "Identifier",
       "ACN", "ABN",
       "HomeMarket",
       "GICSSector", "GICSIndGrp",
       "ASXSector", "ASXSubSector",
       "FormerNames",
       "TradingStatus",
       "ListDate", "DelistDate", "DelistReason",
       "Address", "City", "State", "Postcode",
       "PhoneNumber", "FaxNumber",
       "WebAddress", "EmailAddress",
       "RegistryId", "Template", "ASX300" >>

OUTPUT_COLS ==
    << "Gcode",
       "SR_CompanyId", "SR_ShareClassId",
       "SR_ISIN", "SR_CUSIP", "SR_Valoren",
       "CompanyTicker", "SecurityTicker",
       "MC_Identifier",
       "MA_Identifier",
       "FullCompanyName", "AbbrevCompanyName",
       "GICSIndustry",
       "SIRCAIndustryClassCode", "SIRCASectorCode",
       "EarliestListDate", "LatestDelistDate",
       "CompanyDelistReasonCode", "CompanyRelatedGCode",
       "CompanyDelistReasonComment",
       "SeniorSecurity", "SecurityType",
       "AbreviatedSecurityDescription",
       "ListDate_YMD", "DelistDate_YMD",
       "ListDate", "DelistDate",
       "RecordCount",
       "AlteredLink",
       "SR_ExchangeId", "SR_CurrencyId", "SR_MIC",
       "SR_SecurityType",
       "SR_ShareClassDescription", "SR_ShareClassStatus",
       "SR_IsPrimaryShare",
       "SR_IsDepositaryReceipt", "SR_DepositaryReceiptRatio",
       "SR_IPODate", "SR_IPOOfferPrice", "SR_IPOOfferPriceRange",
       "SR_IsDividendReinvest", "SR_IsDirectInvest",
       "SR_InvestmentId",
       "SR_CommonShareSubType", "SR_ExchangeSubMarketGlobalId",
       "SR_ConversionRatio", "SR_ActiveOrDelisted",
       "MC_ACN", "MC_ABN",
       "MC_HomeMarket",
       "MC_GICSSector", "MC_GICSIndGrp",
       "MC_ASXSector", "MC_ASXSubSector",
       "MC_FormerNames",
       "MC_TradingStatus",
       "MC_ListDate", "MC_DelistDate", "MC_DelistReason",
       "MC_Address", "MC_City", "MC_State", "MC_Postcode",
       "MC_PhoneNumber", "MC_FaxNumber",
       "MC_WebAddress", "MC_EmailAddress",
       "MC_RegistryId", "MC_Template", "MC_ASX300",
       "MS_CompanyID", "MS_SecurityID",
       "MS_CompanyID2", "MS_SecurityID2" >>

\* skip = {"join_key", "ListDate_DaysSince", "DelistDate_DaysSince"}
skip == {"join_key", "ListDate_DaysSince", "DelistDate_DaysSince"}

\* f"SR_{col}" and f"MC_{col}"
SR(col) == "SR_" \o col
MC(col) == "MC_" \o col

(***************************************************************************)
(* The input files.  A file is its header (the field names, in order) and  *)
(* its rows as csv.DictReader yields them.                                 *)
(***************************************************************************)
\* The value of a column the candidate rows below do not spell out.
Filler == <<"v">>

\* The row of a file with header cols whose listed fields are those of full.
MkRow(cols, full) ==
    [c \in Range(cols) |-> IF c \in DOMAIN full THEN full[c] ELSE Filler]

\* The numbers of rows of the three files: at most MaxRows rows in all.
RowCounts ==
    {n \in (0..MaxRows) \X (0..MaxRows) \X (0..MaxRows) : n[1] + n[2] + n[3] <= MaxRows}

\* Headers of si_au_ref_names.csv.
SircaHeader == <<"Gcode", "CompanyTicker", "MS_CompanyID", "MS_SecurityID">>
SircaHeaders ==
    { SircaHeader,
      <<"MS_CompanyID", "MS_SecurityID", "CompanyTicker">>,
      <<"join_key", "Extra", "MS_SecurityID2", "Gcode", "MS_CompanyID",
        "MS_SecurityID", "ListDate_DaysSince", "CompanyTicker">>,
      <<"Gcode", "Extra", "DelistDate_DaysSince">> }

\* Rows of si_au_ref_names.csv.
SircaRows ==
    { [Gcode |-> <<"g">>, CompanyTicker |-> <<"x", "y", "z">>,
       MS_CompanyID |-> <<"1">>, MS_SecurityID |-> <<"A">>],
      [Gcode |-> <<"h">>, CompanyTicker |-> <<" ", "X", "Y", "Z">>,
       MS_CompanyID |-> <<" ", "1">>, MS_SecurityID |-> <<"A", " ">>],
      [Gcode |-> <<"g">>, CompanyTicker |-> <<"x", "y", "z">>,
       MS_CompanyID |-> <<" ">>, MS_SecurityID |-> None],
      [Gcode |-> <<"g">>, CompanyTicker |-> <<>>,
       MS_CompanyID |-> <<"1">>, MS_SecurityID |-> <<"A">>] }

\* The row of the schema-varying inputs.
SircaRow ==
    [Gcode |-> <<"g">>, CompanyTicker |-> <<"x", "y", "z">>,
     MS_CompanyID |-> <<"1">>, MS_SecurityID |-> <<"A">>]

\* Headers of Reference_SecurityReference-2025-12-merged.csv.
SecrefHeader == <<"CompanyId", "ShareClassId", "ISIN", "CUSIP", "Name">>
SecrefHeaders ==
    { SecrefHeader,
      <<"Name", "ShareClassId", "CompanyId">> }

\* Rows of Reference_SecurityReference-2025-12-merged.csv.
SecrefRows ==
    { [CompanyId |-> <<"1">>, ShareClassId |-> <<"A">>,
       ISIN |-> <<"I", "1">>, CUSIP |-> <<"c">>],
      [CompanyId |-> <<" ", "1">>, ShareClassId |-> <<"A", " ">>,
       ISIN |-> <<>>, CUSIP |-> <<"d">>],
      [CompanyId |-> <<" ">>, ShareClassId |-> <<>>,
       ISIN |-> <<"I", "1", " ">>, CUSIP |-> <<"e">>] }

SecrefRow ==
    [CompanyId |-> <<"1">>, ShareClassId |-> <<"A">>,
     ISIN |-> <<"I", "1">>, CUSIP |-> <<"c">>]

\* Headers of MasterCompany.csv.
MasterHeader == <<"ISIN", "Symbol", "ABN", "TradingStatus", "Name">>
MasterHeaders ==
    { MasterHeader,
      <<"Symbol", "ABN">>,
      <<"Identifier", "Symbol", "ISIN">> }

\* Rows of MasterCompany.csv.
MasterRows ==
    { [ISIN |-> <<"I", "1">>, Symbol |-> <<>>,
       ABN |-> <<>>, TradingStatus |-> <<>>, Identifier |-> <<"p">>],
      [ISIN |-> <<" ", "I", "1">>, Symbol |-> <<"X", "Y", "Z">>,
       ABN |-> <<"1", "2", "3">>, TradingStatus |-> <<>>, Identifier |-> <<"q">>],
      [ISIN |-> <<>>, Symbol |-> <<" ", "x", "y", "z">>,
       ABN |-> <<>>, TradingStatus |-> <<"L">>, Identifier |-> <<"r">>] }

MasterRow ==
    [ISIN |-> <<" ", "I", "1">>, Symbol |-> <<"X", "Y", "Z">>,
     ABN |-> <<"1", "2", "3">>, TradingStatus |-> <<>>, Identifier |-> <<"q">>]

\* The three files with the given headers and rows.
Files(pc, ps, sc, ss, mc, ms) ==
    [ sirca_cols |-> pc,
      sirca |-> [i \in 1..Len(ps) |-> MkRow(pc, ps[i])],
      secref_cols |-> sc,
      secref |-> [i \in 1..Len(ss) |-> MkRow(sc, ss[i])],
      master_cols |-> mc,
      master |-> [i \in 1..Len(ms) |-> MkRow(mc, ms[i])] ]

\* Inputs with the usual headers and every choice of rows.
RowInputs ==
    UNION { { Files(SircaHeader, ps, SecrefHeader, ss, MasterHeader, ms) :
                ps \in [1..n[1] -> SircaRows],
                ss \in [1..n[2] -> SecrefRows],
                ms \in [1..n[3] -> MasterRows] } : n \in RowCounts }

\* Inputs with every choice of headers and copies of one row.
HeaderInputs ==
    { Files(h[1], [i \in 1..n[1] |-> SircaRow],
            h[2], [i \in 1..n[2] |-> SecrefRow],
            h[3], [i \in 1..n[3] |-> MasterRow]) :
        h \in SircaHeaders \X SecrefHeaders \X MasterHeaders,
        n \in RowCounts }

Inputs == RowInputs \cup HeaderInputs

(***************************************************************************)
(* State.                                                                  *)
(***************************************************************************)
VARIABLES
    files,             \* the three CSV files on disk
    pc,                \* the section of the script that runs next
    sirca, sirca_cols,
    secref, secref_cols,
    master, master_cols,
    sr_cols_keep, sr_lookup, n_step1, merged,
    mc_cols_keep, mc_isin_lookup, n_step2,
    mc_symbol_lookup, n_step3, total_mc,
    output_cols,
    written            \* the rows of master_company_reference.csv

vars ==
    << files, pc, sirca, sirca_cols, secref, secref_cols, master, master_cols,
       sr_cols_keep, sr_lookup, n_step1, merged,
       mc_cols_keep, mc_isin_lookup, n_step2,
       mc_symbol_lookup, n_step3, total_mc, output_cols, written >>

\* No row: the None that dict.get returns for a key that is not indexed.
NoRow == [c \in {} |-> Empty]

\* An empty dict.
EmptyDict == [c \in {} |-> Empty]

Init ==
    /\ files \in Inputs
    /\ pc = "read"
    /\ sirca = <<>> /\ sirca_cols = <<>>
    /\ secref = <<>> /\ secref_cols = <<>>
    /\ master = <<>> /\ master_cols = <<>>
    /\ sr_cols_keep = <<>> /\ sr_lookup = EmptyDict /\ n_step1 = 0 /\ merged = <<>>
    /\ mc_cols_keep = <<>> /\ mc_isin_lookup = EmptyDict /\ n_step2 = 0
    /\ mc_symbol_lookup = EmptyDict /\ n_step3 = 0 /\ total_mc = 0
    /\ output_cols = <<>>
    /\ written = <<>>

(***************************************************************************)
(* 1. Read data.                                                           *)
(***************************************************************************)
Read ==
    /\ pc = "read"
    /\ sirca' = files.sirca /\ sirca_cols' = files.sirca_cols
    /\ secref' = files.secref /\ secref_cols' = files.secref_cols
    /\ master' = files.master /\ master_cols' = files.master_cols
    /\ pc' = "clean"
    /\ UNCHANGED << files, sr_cols_keep, sr_lookup, n_step1, merged,
                    mc_cols_keep, mc_isin_lookup, n_step2,
                    mc_symbol_lookup, n_step3, total_mc, output_cols, written >>

(***************************************************************************)
(* 2. Standardise join keys.                                               *)
(***************************************************************************)
\* row[key] = clean(row.get(key, ""))
CleanField(row, key) == Put(row, key, clean(Get(row, key, Empty)))

CleanSirca(row) == CleanField(CleanField(row, "MS_CompanyID"), "MS_SecurityID")

CleanSecref(row) ==
    CleanField(CleanField(CleanField(row, "CompanyId"), "ShareClassId"), "ISIN")

CleanMaster(row) == CleanField(CleanField(row, "ISIN"), "Symbol")

Standardise ==
    /\ pc = "clean"
    /\ sirca' = [i \in 1..Len(sirca) |-> CleanSirca(sirca[i])]
    /\ secref' = [i \in 1..Len(secref) |-> CleanSecref(secref[i])]
    /\ master' = [i \in 1..Len(master) |-> CleanMaster(master[i])]
    /\ pc' = "step1"
    /\ UNCHANGED << files, sirca_cols, secref_cols, master_cols,
                    sr_cols_keep, sr_lookup, n_step1, merged,
                    mc_cols_keep, mc_isin_lookup, n_step2,
                    mc_symbol_lookup, n_step3, total_mc, output_cols, written >>

(***************************************************************************)
(* 3. Step 1: join SIRCA to SecurityReference on the two-part key.         *)
(***************************************************************************)
\* The key ("", "").
EmptyKey == <<Empty, Empty>>

\* lookup.get(key): the indexed row, or no row.
LookupGet(lookup, key) == IF key \in DOMAIN lookup THEN lookup[key] ELSE NoRow

\* "if row:" is true of a row that was found; a row read from a file is
\* never an empty dict after the keys were standardised.
Found(row) == DOMAIN row # {}

\* Variant of BuildSrLookup: a later row with the same key replaces the earlier.
RECURSIVE BuildSrLookupLast(_, _)
BuildSrLookupLast(rows, lookup) ==
    IF rows = <<>> THEN lookup
    ELSE LET row == Head(rows)
             key == <<row["CompanyId"], row["ShareClassId"]>>
         IN  BuildSrLookupLast(Tail(rows),
                 IF key # EmptyKey THEN Put(lookup, key, row) ELSE lookup)

\* Variant of BuildSrLookup: the key ("", "") is indexed like any other.
RECURSIVE BuildSrLookupAll(_, _)
BuildSrLookupAll(rows, lookup) ==
    IF rows = <<>> THEN lookup
    ELSE LET row == Head(rows)
             key == <<row["CompanyId"], row["ShareClassId"]>>
         IN  BuildSrLookupAll(Tail(rows),
                 IF key \notin DOMAIN lookup THEN Put(lookup, key, row) ELSE lookup)

\* for row in secref: if key not in sr_lookup and key != ("", ""): sr_lookup[key] = row
RECURSIVE BuildSrLookup(_, _)
BuildSrLookup(rows, lookup) ==
    IF rows = <<>> THEN lookup
    ELSE LET row == Head(rows)
             key == <<row["CompanyId"], row["ShareClassId"]>>
         IN  BuildSrLookup(Tail(rows),
                 IF key \notin DOMAIN lookup /\ key # EmptyKey
                 THEN Put(lookup, key, row)
                 ELSE lookup)

\* for col in cols: new_row[prefix + col] = src.get(col, "")
RECURSIVE CopyCols(_, _, _, _)
CopyCols(new_row, prefix, cols, src) ==
    IF cols = <<>> THEN new_row
    ELSE CopyCols(Put(new_row, prefix \o Head(cols), Get(src, Head(cols), Empty)),
                  prefix, Tail(cols), src)

\* Variant of BlankCols: an unmatched row gets no placeholder fields.
BlankColsSkip(new_row, prefix, cols) == new_row

\* for col in cols: new_row[prefix + col] = ""
RECURSIVE BlankCols(_, _, _)
BlankCols(new_row, prefix, cols) ==
    IF cols = <<>> THEN new_row
    ELSE BlankCols(Put(new_row, prefix \o Head(cols), Empty), prefix, Tail(cols))

\* The row of sr_lookup that a SIRCA row joins to, or no row.
SrRowOf(row, lookup) ==
    LET key == <<row["MS_CompanyID"], row["MS_SecurityID"]>>
    IN  IF key # EmptyKey THEN LookupGet(lookup, key) ELSE NoRow

\* Variant of Step1Loop: an inner join, unmatched rows are not appended.
RECURSIVE Step1LoopInner(_, _, _, _)
Step1LoopInner(rows, lookup, cols, acc) ==
    IF rows = <<>> THEN acc
    ELSE LET row == Head(rows)
             sr_row == SrRowOf(row, lookup)
         IN  Step1LoopInner(Tail(rows), lookup, cols,
                 IF Found(sr_row)
                 THEN [merged |-> Append(acc.merged, CopyCols(row, "SR_", cols, sr_row)),
                       n |-> acc.n + 1]
                 ELSE acc)

\* The body of the loop over sirca: the rows appended and the matches counted.
RECURSIVE Step1Loop(_, _, _, _)
Step1Loop(rows, lookup, cols, acc) ==
    IF rows = <<>> THEN acc
    ELSE LET row == Head(rows)
             sr_row == SrRowOf(row, lookup)
         IN  Step1Loop(Tail(rows), lookup, cols,
                 IF Found(sr_row)
                 THEN [merged |-> Append(acc.merged, CopyCols(row, "SR_", cols, sr_row)),
                       n |-> acc.n + 1]
                 ELSE [merged |-> Append(acc.merged, BlankCols(row, "SR_", cols)),
                       n |-> acc.n])

Step1 ==
    /\ pc = "step1"
    /\ LET keep == FilterIn(SR_COLS_KEEP, Range(secref_cols))
           lookup == BuildSrLookup(secref, EmptyDict)
           res == Step1Loop(sirca, lookup, keep, [merged |-> <<>>, n |-> 0])
       IN  /\ sr_cols_keep' = keep
           /\ sr_lookup' = lookup
           /\ merged' = res.merged
           /\ n_step1' = res.n
    /\ pc' = "step2"
    /\ UNCHANGED << files, sirca, sirca_cols, secref, secref_cols, master, master_cols,
                    mc_cols_keep, mc_isin_lookup, n_step2,
                    mc_symbol_lookup, n_step3, total_mc, output_cols, written >>

(***************************************************************************)
(* 4. Step 2: join to MasterCompany on ISIN.                               *)
(***************************************************************************)
\* Variant of BuildIsinLookup: a later row with the same ISIN replaces the earlier.
RECURSIVE BuildIsinLookupLast(_, _)
BuildIsinLookupLast(rows, lookup) ==
    IF rows = <<>> THEN lookup
    ELSE LET row == Head(rows)
             isin == row["ISIN"]
         IN  BuildIsinLookupLast(Tail(rows),
                 IF Truthy(isin) THEN Put(lookup, isin, row) ELSE lookup)

\* for row in master: if isin and isin not in mc_isin_lookup: mc_isin_lookup[isin] = row
RECURSIVE BuildIsinLookup(_, _)
BuildIsinLookup(rows, lookup) ==
    IF rows = <<>> THEN lookup
    ELSE LET row == Head(rows)
             isin == row["ISIN"]
         IN  BuildIsinLookup(Tail(rows),
                 IF Truthy(isin) /\ isin \notin DOMAIN lookup
                 THEN Put(lookup, isin, row)
                 ELSE lookup)

\* The row of mc_isin_lookup that a merged row joins to, or no row.
IsinRowOf(mrow, lookup) ==
    LET sr_isin == Get(mrow, "SR_ISIN", Empty)
    IN  IF Truthy(sr_isin) THEN LookupGet(lookup, sr_isin) ELSE NoRow

\* The body of the loop over merged of step 2.
RECURSIVE Step2Loop(_, _, _, _)
Step2Loop(rows, lookup, cols, acc) ==
    IF rows = <<>> THEN acc
    ELSE LET mrow == Head(rows)
             mc_row == IsinRowOf(mrow, lookup)
         IN  Step2Loop(Tail(rows), lookup, cols,
                 IF Found(mc_row)
                 THEN [merged |-> Append(acc.merged, CopyCols(mrow, "MC_", cols, mc_row)),
                       n |-> acc.n + 1]
                 ELSE [merged |-> Append(acc.merged, BlankCols(mrow, "MC_", cols)),
                       n |-> acc.n])

Step2 ==
    /\ pc = "step2"
    /\ LET keep == FilterIn(MC_COLS_KEEP, Range(master_cols))
           lookup == BuildIsinLookup(master, EmptyDict)
           res == Step2Loop(merged, lookup, keep, [merged |-> <<>>, n |-> 0])
       IN  /\ mc_cols_keep' = keep
           /\ mc_isin_lookup' = lookup
           /\ merged' = res.merged
           /\ n_step2' = res.n
    /\ pc' = "step3"
    /\ UNCHANGED << files, sirca, sirca_cols, secref, secref_cols, master, master_cols,
                    sr_cols_keep, sr_lookup, n_step1,
                    mc_symbol_lookup, n_step3, total_mc, output_cols, written >>

(***************************************************************************)
(* 5. Step 3: fallback match on Symbol for the remaining rows.             *)
(***************************************************************************)
\* Variant of BuildSymbolLookup: the Symbol is indexed as written, not upper-cased.
RECURSIVE BuildSymbolLookupCased(_, _)
BuildSymbolLookupCased(rows, lookup) ==
    IF rows = <<>> THEN lookup
    ELSE LET row == Head(rows)
             sym == row["Symbol"]
         IN  BuildSymbolLookupCased(Tail(rows),
                 IF Truthy(sym) /\ sym \notin DOMAIN lookup
                 THEN Put(lookup, sym, row)
                 ELSE lookup)

\* for row in master: sym = row["Symbol"].upper()
\*     if sym and sym not in mc_symbol_lookup: mc_symbol_lookup[sym] = row
RECURSIVE BuildSymbolLookup(_, _)
BuildSymbolLookup(rows, lookup) ==
    IF rows = <<>> THEN lookup
    ELSE LET row == Head(rows)
             sym == upper(row["Symbol"])
         IN  BuildSymbolLookup(Tail(rows),
                 IF Truthy(sym) /\ sym \notin DOMAIN lookup
                 THEN Put(lookup, sym, row)
                 ELSE lookup)

\* The test that makes the loop of step 3 skip a row.
HasMasterData(mrow) ==
    \/ Truthy(Get(mrow, "MC_ABN", Empty))
    \/ Truthy(Get(mrow, "MC_ACN", Empty))
    \/ Truthy(Get(mrow, "MC_TradingStatus", Empty))

\* The row of mc_symbol_lookup that a merged row's ticker finds, or no row.
SymbolRowOf(mrow, lookup) ==
    LET ticker == upper(clean(Get(mrow, "CompanyTicker", Empty)))
    IN  IF Truthy(ticker) THEN LookupGet(lookup, ticker) ELSE NoRow

\* Variant of Step3Loop: only the MC_ fields that are still empty are filled.
RECURSIVE Step3LoopFill(_, _, _, _)
Step3LoopFill(rows, lookup, cols, acc) ==
    IF rows = <<>> THEN acc
    ELSE LET mrow == Head(rows)
             mc_row == SymbolRowOf(mrow, lookup)
             empty == SelectSeq(cols, LAMBDA c : ~Truthy(Get(mrow, "MC_" \o c, Empty)))
         IN  Step3LoopFill(Tail(rows), lookup, cols,
                 IF HasMasterData(mrow)
                 THEN [merged |-> Append(acc.merged, mrow), n |-> acc.n]
                 ELSE IF Found(mc_row)
                 THEN [merged |-> Append(acc.merged, CopyCols(mrow, "MC_", empty, mc_row)),
                       n |-> acc.n + 1]
                 ELSE [merged |-> Append(acc.merged, mrow), n |-> acc.n])

\* The body of the loop over merged of step 3.
RECURSIVE Step3Loop(_, _, _, _)
Step3Loop(rows, lookup, cols, acc) ==
    IF rows = <<>> THEN acc
    ELSE LET mrow == Head(rows)
             mc_row == SymbolRowOf(mrow, lookup)
         IN  Step3Loop(Tail(rows), lookup, cols,
                 IF HasMasterData(mrow)
                 THEN [merged |-> Append(acc.merged, mrow), n |-> acc.n]
                 ELSE IF Found(mc_row)
                 THEN [merged |-> Append(acc.merged, CopyCols(mrow, "MC_", cols, mc_row)),
                       n |-> acc.n + 1]
                 ELSE [merged |-> Append(acc.merged, mrow), n |-> acc.n])

Step3 ==
    /\ pc = "step3"
    /\ LET lookup == BuildSymbolLookup(master, EmptyDict)
           res == Step3Loop(merged, lookup, mc_cols_keep, [merged |-> <<>>, n |-> 0])
       IN  /\ mc_symbol_lookup' = lookup
           /\ merged' = res.merged
           /\ n_step3' = res.n
           /\ total_mc' = n_step2 + res.n
    /\ pc' = "columns"
    /\ UNCHANGED << files, sirca, sirca_cols, secref, secref_cols, master, master_cols,
                    sr_cols_keep, sr_lookup, n_step1,
                    mc_cols_keep, mc_isin_lookup, n_step2, output_cols, written >>

(***************************************************************************)
(* 6. Define output columns.                                               *)
(***************************************************************************)
\* available = set(merged[0].keys()) if merged else set()
Available(rows) == IF rows # <<>> THEN DOMAIN rows[1] ELSE {}

\* Variant of AppendMissed: the skip set is not consulted.
RECURSIVE AppendMissedNoSkip(_, _, _)
AppendMissedNoSkip(cols, all_output_set, out) ==
    IF cols = <<>> THEN out
    ELSE AppendMissedNoSkip(Tail(cols), all_output_set,
             IF Head(cols) \notin all_output_set THEN Append(out, Head(cols)) ELSE out)

\* for col in sirca_cols:
\*     if col not in all_output_set and col not in skip: output_cols.append(col)
RECURSIVE AppendMissed(_, _, _)
AppendMissed(cols, all_output_set, out) ==
    IF cols = <<>> THEN out
    ELSE AppendMissed(Tail(cols), all_output_set,
             IF Head(cols) \notin all_output_set /\ Head(cols) \notin skip
             THEN Append(out, Head(cols))
             ELSE out)

Columns ==
    /\ pc = "columns"
    /\ LET filtered == FilterIn(OUTPUT_COLS, Available(merged))
       IN  output_cols' = AppendMissed(sirca_cols, Range(filtered), filtered)
    /\ pc' = "write"
    /\ UNCHANGED << files, sirca, sirca_cols, secref, secref_cols, master, master_cols,
                    sr_cols_keep, sr_lookup, n_step1, merged,
                    mc_cols_keep, mc_isin_lookup, n_step2,
                    mc_symbol_lookup, n_step3, total_mc, written >>

(***************************************************************************)
(* 7. Write output.                                                        *)
(***************************************************************************)
\* csv.DictWriter(fieldnames, extrasaction="ignore"): the listed fields of a
\* row, "" for a field the row does not have.
WriteRow(fieldnames, row) == [c \in Range(fieldnames) |-> Get(row, c, Empty)]

Write ==
    /\ pc = "write"
    /\ written' = [i \in 1..Len(merged) |-> WriteRow(output_cols, merged[i])]
    /\ pc' = "done"
    /\ UNCHANGED << files, sirca, sirca_cols, secref, secref_cols, master, master_cols,
                    sr_cols_keep, sr_lookup, n_step1, merged,
                    mc_cols_keep, mc_isin_lookup, n_step2,
                    mc_symbol_lookup, n_step3, total_mc, output_cols >>

Next == Read \/ Standardise \/ Step1 \/ Step2 \/ Step3 \/ Columns \/ Write

Spec == Init /\ [][Next]_vars

(***************************************************************************)
(* Vocabulary of the properties.                                           *)
(***************************************************************************)
AfterStep1 == pc \in {"step2", "step3", "columns", "write", "done"}
AfterStep3 == pc \in {"columns", "write", "done"}
AfterColumns == pc \in {"write", "done"}

Rows == 1..Len(merged)

Min(S) == CHOOSE x \in S : \A y \in S : x <= y

\* The fields the two joins copy: the kept columns that the file's header has.
SrFields == Range(SR_COLS_KEEP) \cap Range(files.secref_cols)
McFields == Range(MC_COLS_KEEP) \cap Range(files.master_cols)

\* The two-part key of the i-th SIRCA row and of the j-th SecurityReference row.
SircaKey(i) == <<sirca[i]["MS_CompanyID"], sirca[i]["MS_SecurityID"]>>
SecrefKey(j) == <<secref[j]["CompanyId"], secref[j]["ShareClassId"]>>

\* The SecurityReference rows that carry the key of the i-th SIRCA row.
SecrefMatches(i) == {j \in 1..Len(secref) : SecrefKey(j) = SircaKey(i)}

\* The i-th SIRCA row as the file has it has an empty key once trimmed.
RawKeyEmpty(i) ==
    /\ clean(Get(files.sirca[i], "MS_CompanyID", Empty)) = Empty
    /\ clean(Get(files.sirca[i], "MS_SecurityID", Empty)) = Empty

\* The MasterCompany rows that carry the SR_ISIN of a merged row.
IsinMatches(mrow) ==
    {j \in 1..Len(master) : master[j]["ISIN"] = Get(mrow, "SR_ISIN", Empty)}

\* The merged row matched in the ISIN join.
IsinMatched(mrow) == Truthy(Get(mrow, "SR_ISIN", Empty)) /\ IsinMatches(mrow) # {}

\* Lower-case and upper-case forms of one letter.
CasePairs == {<<"x", "X">>, <<"y", "Y">>, <<"z", "Z">>, <<"q", "Q">>}

\* Two strings are equal when letter case is ignored.
EqIgnoreCase(a, b) ==
    /\ Len(a) = Len(b)
    /\ \A k \in 1..Len(a) :
          a[k] = b[k] \/ <<a[k], b[k]>> \in CasePairs \/ <<b[k], a[k]>> \in CasePairs

\* The trimmed ticker of a merged row.
TickerOf(mrow) == clean(Get(mrow, "CompanyTicker", Empty))

\* The MasterCompany rows whose Symbol is the ticker of a merged row.
TickerMatches(mrow) ==
    {j \in 1..Len(master) :
        master[j]["Symbol"] # Empty /\ EqIgnoreCase(master[j]["Symbol"], TickerOf(mrow))}

\* Every field with the prefix is the empty string.
AllBlank(mrow, prefix, fields) ==
    \A col \in fields : (prefix \o col) \in DOMAIN mrow /\ mrow[prefix \o col] = Empty

\* Every field with the prefix is the field of the source row.
AllFrom(mrow, prefix, fields, src) ==
    \A col \in fields :
        (prefix \o col) \in DOMAIN mrow /\ mrow[prefix \o col] = Get(src, col, Empty)

(***************************************************************************)
(* C1.  Fallback exclusivity.                                              *)
(***************************************************************************)
\* C1: step 3 leaves every MC_* field of a row that matched in the ISIN join
\* as step 2 set it.
C1_FallbackExclusivity ==
    [][pc = "step3" =>
         \A i \in Rows :
            IsinMatched(merged[i]) =>
               \A col \in Range(MC_COLS_KEEP) :
                  Get(merged'[i], MC(col), Empty) = Get(merged[i], MC(col), Empty)]_vars

(***************************************************************************)
(* C2.  Row conservation.                                                  *)
(***************************************************************************)
\* C2: the merged collection has one row per SIRCA row, the i-th built from
\* the i-th SIRCA row, and as many rows are written.
C2_RowConservation ==
    /\ AfterStep1 =>
          /\ Len(merged) = Len(files.sirca)
          /\ \A i \in 1..Len(files.sirca) :
                \A c \in DOMAIN files.sirca[i] :
                   c \in DOMAIN merged[i] /\ merged[i][c] = sirca[i][c]
    /\ pc = "done" => Len(written) = Len(files.sirca)

C2_Witness ==
    /\ pc = "done"
    /\ Len(files.sirca) = 2 /\ files.sirca[1] # files.sirca[2]
    /\ files.secref = <<>> /\ files.master = <<>>
    /\ Len(written) = 2

(***************************************************************************)
(* C3.  Schema uniformity.                                                 *)
(***************************************************************************)
\* C3: after the three joins all merged rows have the same field names.
C3_SchemaUniformity ==
    AfterStep3 => \A i, j \in Rows : DOMAIN merged[i] = DOMAIN merged[j]

C3_Witness ==
    /\ AfterStep3
    /\ \E i, j \in Rows :
          /\ SecrefMatches(i) # {} /\ IsinMatched(merged[i])
          /\ SecrefMatches(j) = {} /\ ~IsinMatched(merged[j]) /\ TickerMatches(merged[j]) = {}
          /\ SrFields # {} /\ McFields # {}

(***************************************************************************)
(* C4.  First match wins in the composite-key join.                        *)
(***************************************************************************)
\* C4: a SIRCA row with a non-empty key that SecurityReference rows carry
\* has the SR_ fields of the earliest of those rows.
C4_FirstMatchWins ==
    AfterStep1 =>
       \A i \in Rows :
          (SircaKey(i) # EmptyKey /\ SecrefMatches(i) # {}) =>
             AllFrom(merged[i], "SR_", SrFields, secref[Min(SecrefMatches(i))])

C4_Witness ==
    /\ pc = "done"
    /\ \E i \in Rows : \E j, k \in SecrefMatches(i) :
          /\ j < k
          /\ SircaKey(i) # EmptyKey
          /\ secref[j]["ISIN"] # secref[k]["ISIN"]
          /\ Get(merged[i], "SR_ISIN", None) = secref[j]["ISIN"]

(***************************************************************************)
(* C5.  The empty composite key never matches.                             *)
(***************************************************************************)
\* C5: ("", "") is no key of the composite index, a SIRCA row whose trimmed
\* key is empty has empty SR_ fields, and only rows with a non-empty key
\* are counted as matched.
C5_EmptyKeyNeverMatches ==
    AfterStep1 =>
       /\ EmptyKey \notin DOMAIN sr_lookup
       /\ \A i \in Rows : RawKeyEmpty(i) => AllBlank(merged[i], "SR_", SrFields)
       /\ n_step1 = Cardinality({i \in Rows : ~RawKeyEmpty(i) /\ SecrefMatches(i) # {}})

C5_Witness ==
    /\ pc = "done"
    /\ SrFields # {}
    /\ \E i \in Rows : RawKeyEmpty(i) /\ SecrefMatches(i) # {}
    /\ \E j \in 1..Len(files.secref) :
          /\ files.secref[j]["CompanyId"] # Empty
          /\ clean(files.secref[j]["CompanyId"]) = Empty
          /\ clean(files.secref[j]["ShareClassId"]) = Empty
    /\ \E i \in Rows : ~RawKeyEmpty(i) /\ SecrefMatches(i) # {}

(***************************************************************************)
(* C6.  The total of MasterCompany matches counts no row twice.            *)
(***************************************************************************)
\* C6: n_step2 + n_step3 is the number of merged rows that matched a
\* MasterCompany row in step 2 or in step 3, so it is at most the number of
\* merged rows.
C6_NoDoubleCount ==
    AfterStep3 =>
       /\ total_mc = n_step2 + n_step3
       /\ total_mc =
             Cardinality({i \in Rows :
                             \/ IsinMatched(merged[i])
                             \/ (TickerOf(merged[i]) # Empty /\ TickerMatches(merged[i]) # {})})
       /\ total_mc <= Len(merged)

(***************************************************************************)
(* C7.  Case-insensitive ticker fallback.                                  *)
(***************************************************************************)
\* The inputs of the worked example: one SIRCA row with ticker "xyz", no
\* SecurityReference row, one MasterCompany row with Symbol "XYZ", ABN "123".
TickerExample ==
    /\ files.sirca = << [MS_CompanyID |-> <<"1">>, MS_SecurityID |-> <<"A">>,
                         CompanyTicker |-> <<"x", "y", "z">>] >>
    /\ files.secref = <<>>
    /\ files.master = << [Symbol |-> <<"X", "Y", "Z">>, ABN |-> <<"1", "2", "3">>] >>

\* C7: a row that the ISIN join left unmatched and whose trimmed ticker is
\* not empty has the MC_ fields of the earliest MasterCompany row whose Symbol
\* is that ticker up to letter case; tickers that differ in case only get the
\* same MC_ fields; the worked example yields empty SR_ fields and MC_ABN "123".
C7_TickerFallback ==
    /\ AfterStep3 =>
          /\ \A i \in Rows :
                ( /\ ~IsinMatched(merged[i])
                  /\ TickerOf(merged[i]) # Empty
                  /\ TickerMatches(merged[i]) # {} ) =>
                   AllFrom(merged[i], "MC_", McFields,
                           master[Min(TickerMatches(merged[i]))])
          /\ \A i, j \in Rows :
                ( /\ ~IsinMatched(merged[i]) /\ ~IsinMatched(merged[j])
                  /\ TickerOf(merged[i]) # Empty
                  /\ EqIgnoreCase(TickerOf(merged[i]), TickerOf(merged[j])) ) =>
                   \A col \in McFields : merged[i][MC(col)] = merged[j][MC(col)]
    /\ (pc = "done" /\ TickerExample) =>
          /\ Len(written) = 1
          /\ AllBlank(written[1], "SR_", SrFields)
          /\ AllBlank(merged[1], "SR_", SrFields)
          /\ "MC_ABN" \in DOMAIN written[1]
          /\ written[1]["MC_ABN"] = <<"1", "2", "3">>

C7_Witness ==
    /\ pc = "done"
    /\ \E i, j \in Rows :
          /\ ~IsinMatched(merged[i]) /\ ~IsinMatched(merged[j])
          /\ TickerOf(merged[i]) # TickerOf(merged[j])
          /\ EqIgnoreCase(TickerOf(merged[i]), TickerOf(merged[j]))
          /\ Cardinality(TickerMatches(merged[i])) = 2
          /\ \E k \in TickerMatches(merged[i]) : master[k]["Symbol"] # upper(master[k]["Symbol"])
          /\ master[1] # master[2]
          /\ Get(merged[i], "MC_TradingStatus", Empty)
                = Get(master[Min(TickerMatches(merged[i]))], "TradingStatus", None)
          /\ n_step3 = 2

\* The worked example run to its end.
C7_ExampleReached == pc = "done" /\ TickerExample /\ SrFields # {}

(***************************************************************************)
(* C8.  Output projection.                                                 *)
(***************************************************************************)
\* The field names of the merged rows: none when there is no row.
MergedSchema == UNION {DOMAIN merged[i] : i \in Rows}

\* The fixed list restricted to the fields of the merged rows.
FixedPresent == SelectSeq(OUTPUT_COLS, LAMBDA c : c \in MergedSchema)

\* The SIRCA columns that the fixed list misses and that are not skipped.
SircaMissed ==
    SelectSeq(files.sirca_cols,
              LAMBDA c : c \notin Range(FixedPresent)
                         /\ c \notin {"join_key", "ListDate_DaysSince", "DelistDate_DaysSince"})

\* C8: the output columns are the fixed list restricted to the merged schema,
\* then the missed SIRCA columns in header order; every SIRCA column outside
\* the exclusion set is an output column, and no excluded column and no column
\* outside both schemas is.
C8_OutputProjection ==
    AfterColumns =>
       /\ output_cols = FixedPresent \o SircaMissed
       /\ \A c \in Range(files.sirca_cols) :
             c \notin {"join_key", "ListDate_DaysSince", "DelistDate_DaysSince"}
                => c \in Range(output_cols)
       /\ \A c \in Range(output_cols) :
             /\ c \notin {"join_key", "ListDate_DaysSince", "DelistDate_DaysSince"}
             /\ c \in MergedSchema \cup Range(files.sirca_cols)

C8_Witness ==
    /\ pc = "done"
    /\ merged # <<>>
    /\ "join_key" \in Range(files.sirca_cols)
    /\ "Extra" \in Range(output_cols)
    /\ \E k \in 1..Len(output_cols) : output_cols[k] = "MS_SecurityID2" /\ k < Len(output_cols)
    /\ output_cols[Len(output_cols)] = "Extra"
    /\ "MC_ABN" \notin Range(output_cols)

(***************************************************************************)
(* C9.  First match wins in the ISIN join.                                 *)
(***************************************************************************)
\* C9: after step 2 a row whose SR_ISIN is not empty and is the ISIN of
\* MasterCompany rows has the MC_ fields of the earliest of them, any other
\* row has empty MC_ fields, and "" is no key of the ISIN index.
C9_IsinFirstMatchWins ==
    pc = "step3" =>
       /\ \A i \in Rows :
             IF IsinMatched(merged[i])
             THEN AllFrom(merged[i], "MC_", McFields, master[Min(IsinMatches(merged[i]))])
             ELSE AllBlank(merged[i], "MC_", McFields)
       /\ \A i \in Rows :
             (SircaKey(i) = EmptyKey \/ SecrefMatches(i) = {})
                => ~Truthy(Get(merged[i], "SR_ISIN", Empty))
       /\ Empty \notin DOMAIN mc_isin_lookup

C9_Witness ==
    /\ pc = "step3"
    /\ \E i \in Rows : \E j, k \in IsinMatches(merged[i]) :
          /\ IsinMatched(merged[i])
          /\ j < k
          /\ Get(master[j], "ABN", Empty) # Get(master[k], "ABN", Empty)
          /\ Get(merged[i], "MC_ABN", Empty) = Get(master[j], "ABN", Empty)

(***************************************************************************)
(* C10.  Single-source enrichment.                                         *)
(***************************************************************************)
\* C10: after the three joins the MC_ fields of a row are all empty or all
\* those of one MasterCompany row, and its SR_ fields are all empty or all
\* those of one SecurityReference row.
C10_SingleSource ==
    AfterStep3 =>
       \A i \in Rows :
          /\ \/ AllBlank(merged[i], "MC_", McFields)
             \/ \E j \in 1..Len(master) : AllFrom(merged[i], "MC_", McFields, master[j])
          /\ \/ AllBlank(merged[i], "SR_", SrFields)
             \/ \E j \in 1..Len(secref) : AllFrom(merged[i], "SR_", SrFields, secref[j])

C10_Witness ==
    /\ pc = "done"
    /\ \E i \in Rows :
          /\ IsinMatched(merged[i])
          /\ TickerMatches(merged[i]) # {}
          /\ Min(TickerMatches(merged[i])) # Min(IsinMatches(merged[i]))
          /\ AllFrom(merged[i], "MC_", McFields, master[Min(TickerMatches(merged[i]))])
          /\ ~AllFrom(merged[i], "MC_", McFields, master[Min(IsinMatches(merged[i]))])
          /\ ~AllBlank(merged[i], "SR_", SrFields)

====
